---- MODULE Spec2Model ----
(***************************************************************************)
(* Model of the SQL identity policy of src/src/lib.rs: the per-request     *)
(* SqlIdentity state machine (remember / forget / write), the helpers of   *)
(* SqlIdentityInner that talk to the persistence actor (create / save /    *)
(* remove / load) and SqlIdentityPolicy::from_request.                     *)
(*                                                                         *)
(* A str is a TLA+ string, a header value received from the wire is a      *)
(* sequence of bytes, Option<T> is a sequence of length 0 (None) or 1      *)
(* (Some).  The persistence actor (mod sql, not part of src/) is modelled  *)
(* from section 4.1 of the specification.                                  *)
(***************************************************************************)
EXTENDS Integers, Sequences, FiniteSets, TLC

\* ------------------------------------------------------------- bounds
NumRequests == 2      \* requests in flight at once (SpecServer)
MaxWrites == 2        \* write calls on one instance (Spec)

\* ---------------------------------------------------------- constants
ARR_LEN == 24         \* let mut arr = [0u8; 24]

Requests == 1..NumRequests
Users == {"alice", "bob"}
Subjects == {"bob"}

None == <<>>
Some(x) == <<x>>
IsSome(o) == o /= <<>>
Unwrap(o) == o[1]

SP == 32              \* the ' ' of split(' '), as a byte

\* ------------------------------------------------------------- strings
\* A str is a TLA+ string; a HeaderValue received from the wire is a
\* sequence of bytes.
Char(s, i) == SubSeq(s, i, i)

Upper == "ABCDEFGHIJKLMNOPQRSTUVWXYZ"
Lower == "abcdefghijklmnopqrstuvwxyz"
Punct == "+,-./0123456789:;<=>"

\* The character of a visible ASCII byte ("?" stands for the visible bytes
\* that no string of the model holds).
CharOf(b) ==
    IF b = 9 THEN "\t"
    ELSE IF b = 32 THEN " "
    ELSE IF b >= 43 /\ b <= 62 THEN Char(Punct, b - 42)
    ELSE IF b >= 65 /\ b <= 90 THEN Char(Upper, b - 64)
    ELSE IF b >= 97 /\ b <= 122 THEN Char(Lower, b - 96)
    ELSE "?"

\* The byte of a character, tabulated over the characters of CharOf.
byteOf == [c \in {CharOf(b) : b \in {9} \cup 32..126} |->
              CHOOSE b \in {9} \cup 32..126 : CharOf(b) = c]
ByteOf(c) == byteOf[c]

\* str::as_bytes
Bytes(s) == [i \in 1..Len(s) |-> ByteOf(Char(s, i))]

\* ------------------------------------------------ base64 and headers
\* base64::encode with the standard alphabet and '=' as padding.
Alphabet == Upper \o Lower \o "0123456789+/"
Base64Char(i) == Char(Alphabet, i + 1)

RECURSIVE Base64Encode(_)
Base64Encode(bytes) ==
    IF Len(bytes) = 0 THEN ""
    ELSE IF Len(bytes) = 1 THEN
        LET n == bytes[1] * 65536
        IN  Base64Char(n \div 262144) \o Base64Char((n \div 4096) % 64) \o "=="
    ELSE IF Len(bytes) = 2 THEN
        LET n == bytes[1] * 65536 + bytes[2] * 256
        IN  Base64Char(n \div 262144) \o Base64Char((n \div 4096) % 64)
            \o Base64Char((n \div 64) % 64) \o "="
    ELSE
        LET n == bytes[1] * 65536 + bytes[2] * 256 + bytes[3]
        IN  Base64Char(n \div 262144) \o Base64Char((n \div 4096) % 64)
            \o Base64Char((n \div 64) % 64) \o Base64Char(n % 64)
            \o Base64Encode(SubSeq(bytes, 4, Len(bytes)))

\* Outputs of rand::thread_rng().fill(&mut arr[..]) the model draws from.
RandBytes == {0, 255}
RandArrs == {[i \in 1..ARR_LEN |-> b] : b \in RandBytes}
Tokens == {Base64Encode(a) : a \in RandArrs}

\* HeaderValue::to_str: the bytes as a str, when all are visible ASCII (or tab).
IsVisibleAscii(b) == (b >= 32 /\ b < 127) \/ b = 9
RECURSIVE Text(_)
Text(v) == IF Len(v) = 0 THEN "" ELSE CharOf(Head(v)) \o Text(Tail(v))
ToStr(v) == IF \A i \in 1..Len(v) : IsVisibleAscii(v[i]) THEN Some(Text(v)) ELSE None

\* str::parse::<HeaderValue>(): fails when a byte is a control byte or DEL.
IsValidHeaderByte(b) == (b >= 32 /\ b /= 127) \/ b = 9
ParseHeaderValue(s) ==
    IF \A i \in 1..Len(s) : IsValidHeaderByte(ByteOf(Char(s, i))) THEN Some(s) ELSE None

\* str::split(' '): the fields between the separators; "" gives one empty field.
RECURSIVE Split(_, _)
Split(s, sep) ==
    IF \A i \in 1..Len(s) : Char(s, i) /= sep THEN <<s>>
    ELSE LET k == CHOOSE i \in 1..Len(s) :
                    Char(s, i) = sep /\ \A j \in 1..(i - 1) : Char(s, j) /= sep
         IN  <<SubSeq(s, 1, k - 1)>> \o Split(SubSeq(s, k + 1, Len(s)), sep)

\* Iterator::next() for the n-th time on a fresh iterator over fields.
Nth(fields, n) == IF Len(fields) >= n THEN Some(fields[n]) ELSE None

\* The Authorization headers a request may carry (None: no such header);
\* 200 is a byte that is no visible ASCII.
KnownToken == Base64Encode([i \in 1..ARR_LEN |-> 0])
AuthHeaders ==
    {None, Some(Bytes("B")), Some(Bytes("B ")), Some(Bytes("B ") \o <<200>>),
     Some(Bytes(" " \o KnownToken)), Some(Bytes("B  " \o KnownToken))}
    \cup {Some(Bytes("B " \o t)) : t \in Tokens}
\* The well-formed subset the concurrent requests of SpecServer present.
ServerHeaders == {None, Some(Bytes("B " \o KnownToken))}

\* The response header values (under the configured name) of the draft
\* response the handler produced.
OLD == "old"
Resps == {<<OLD>>}

\* --------------------------------------------------------------- state
VARIABLES
    rows,       \* the identities table of the store
    nextId,     \* the next autoincrement id of the store
    pc,         \* per request: "new", "loading", "active", "failed"
    header,     \* per request: its Authorization header
    ident,      \* per request: the SqlIdentity built by from_request
    lastCall,   \* per request: the last call made on the instance (with the
                \* value remember was given and the token it generated)
    writes,     \* per request: one entry per write call, with its outcome
    builder,    \* the SqlIdentityBuilder being configured (None: not yet)
    policy      \* the result of SqlIdentityBuilder::finish (None: not yet)

vars == <<rows, nextId, pc, header, ident, lastCall, writes, builder, policy>>

States == {"Created", "Updated", "Deleted", "Unchanged"}

NoIdentity == [id |-> -1, state |-> "Unchanged", identity |-> None, token |-> None]
NoCall == [op |-> "none", value |-> "", token |-> ""]

\* ------------------------------------------------- SqlIdentity methods
\* Mutant of remember: the state is left as it was.
remember_nostate(self, value, arr) ==
    [self EXCEPT !.identity = Some(value),
                 !.token = Some(Base64Encode(arr))]

\* Mutant of remember: a token the instance already has is kept.
remember_keeptoken(self, value, arr) ==
    [self EXCEPT !.identity = Some(value),
                 !.token = IF IsSome(self.token) THEN self.token
                           ELSE Some(Base64Encode(arr)),
                 !.state = "Created"]

\* Mutant of remember: no token is generated.
remember_notoken(self, value, arr) ==
    [self EXCEPT !.identity = Some(value),
                 !.state = "Created"]

remember(self, value, arr) ==
    [self EXCEPT !.identity = Some(value),
                 !.token = Some(Base64Encode(arr)),
                 !.state = "Created"]

\* Mutant of forget: the token is cleared with the identity.
forget_cleartoken(self) ==
    [self EXCEPT !.identity = None, !.token = None, !.state = "Deleted"]

forget(self) ==
    [self EXCEPT !.identity = None, !.state = "Deleted"]

\* Messages to the persistence actor.
UpdateIdentity_create(identity) ==
    [kind |-> "create", id |-> identity.id,
     token |-> Unwrap(identity.token), userid |-> identity.identity]
UpdateIdentity_update(identity) ==
    [kind |-> "update", id |-> identity.id,
     token |-> Unwrap(identity.token), userid |-> identity.identity]
DeleteIdentity(token) ==
    [kind |-> "delete", id |-> -1, token |-> token, userid |-> None]

\* The outcome of one write call.  ret: what write returned ("Done",
\* "Future" or "Err"); status: 0 while the future is pending, else the
\* status the outcome carries; draft: the response write was given, with
\* the headers added to it; delivered: the response the outcome carries
\* (None while pending and on an error); msg: the message sent to the
\* actor; reply: the actor's answer.
Outcome(ret, status, error, draft, delivered, msg, reply) ==
    [ret |-> ret, status |-> status, error |-> error, draft |-> draft,
     delivered |-> delivered, msg |-> msg, reply |-> reply]

\* Mutant of create: the message is sent and the header is not appended.
create_noheader(identity, resp) ==
    IF IsSome(identity.token) THEN
        Outcome("Future", 0, "", resp, None,
                Some([kind |-> "create", id |-> identity.id,
                      token |-> Unwrap(identity.token), userid |-> identity.identity]),
                "pending")
    ELSE Outcome("Future", 401, "TokenNotFound", resp, None, None, "none")

\* Mutant of create: the token replaces the values the header already has.
create_replace(identity, resp) ==
    IF IsSome(identity.token) THEN
        IF IsSome(ParseHeaderValue(Unwrap(identity.token))) THEN
            LET replaced == <<Unwrap(ParseHeaderValue(Unwrap(identity.token)))>>
            IN  Outcome("Future", 0, "", replaced, None,
                        Some(UpdateIdentity_create(identity)), "pending")
        ELSE Outcome("Future", 500, "TokenNotSet", resp, None, None, "none")
    ELSE Outcome("Future", 401, "TokenNotFound", resp, None, None, "none")

create(identity, resp) ==
    IF IsSome(identity.token) THEN
        IF IsSome(ParseHeaderValue(Unwrap(identity.token))) THEN
            LET appended == Append(resp, Unwrap(ParseHeaderValue(Unwrap(identity.token))))
            IN  Outcome("Future", 0, "", appended, None,
                        Some(UpdateIdentity_create(identity)), "pending")
        ELSE Outcome("Future", 500, "TokenNotSet", resp, None, None, "none")
    ELSE Outcome("Future", 401, "TokenNotFound", resp, None, None, "none")

\* Mutant of save: the record is sent to be created.
save_ascreate(identity, resp) ==
    Outcome("Future", 0, "", resp, None, Some(UpdateIdentity_create(identity)), "pending")

save(identity, resp) ==
    Outcome("Future", 0, "", resp, None, Some(UpdateIdentity_update(identity)), "pending")

remove(token, resp) ==
    Outcome("Future", 0, "", resp, None, Some(DeleteIdentity(token)), "pending")

\* Mutant of write: the state is not reset after the action is dispatched.
write_noreset(self, resp) ==
    IF self.state = "Created" THEN
        [self |-> self, out |-> create(self, resp)]
    ELSE IF self.state = "Updated" /\ IsSome(self.token) /\ IsSome(self.identity) THEN
        [self |-> self, out |-> save(self, resp)]
    ELSE IF self.state = "Deleted" /\ IsSome(self.token) THEN
        [self |-> self, out |-> remove(Unwrap(self.token), resp)]
    ELSE IF self.state \in {"Deleted", "Updated"} THEN
        [self |-> self,
         out |-> Outcome("Err", 400, "TokenRequired", resp, None, None, "none")]
    ELSE
        [self |-> [self EXCEPT !.state = "Unchanged"],
         out |-> Outcome("Done", 200, "", resp, Some(resp), None, "none")]

\* Mutant of write: Deleted without a token falls through to the pass-through.
write_silent(self, resp) ==
    IF self.state = "Created" THEN
        LET s == [self EXCEPT !.state = "Unchanged"]
        IN  [self |-> s, out |-> create(s, resp)]
    ELSE IF self.state = "Updated" /\ IsSome(self.token) /\ IsSome(self.identity) THEN
        LET s == [self EXCEPT !.state = "Unchanged"]
        IN  [self |-> s, out |-> save(s, resp)]
    ELSE IF self.state = "Deleted" /\ IsSome(self.token) THEN
        LET s == [self EXCEPT !.state = "Unchanged"]
        IN  [self |-> s, out |-> remove(Unwrap(self.token), resp)]
    ELSE
        [self |-> [self EXCEPT !.state = "Unchanged"],
         out |-> Outcome("Done", 200, "", resp, Some(resp), None, "none")]

\* Mutant of write: the rejection resets the state like the other arms.
write_rejectreset(self, resp) ==
    IF self.state = "Created" THEN
        LET s == [self EXCEPT !.state = "Unchanged"]
        IN  [self |-> s, out |-> create(s, resp)]
    ELSE IF self.state = "Updated" /\ IsSome(self.token) /\ IsSome(self.identity) THEN
        LET s == [self EXCEPT !.state = "Unchanged"]
        IN  [self |-> s, out |-> save(s, resp)]
    ELSE IF self.state = "Deleted" /\ IsSome(self.token) THEN
        LET s == [self EXCEPT !.state = "Unchanged"]
        IN  [self |-> s, out |-> remove(Unwrap(self.token), resp)]
    ELSE IF self.state \in {"Deleted", "Updated"} THEN
        [self |-> [self EXCEPT !.state = "Unchanged"],
         out |-> Outcome("Err", 400, "TokenRequired", resp, None, None, "none")]
    ELSE
        [self |-> [self EXCEPT !.state = "Unchanged"],
         out |-> Outcome("Done", 200, "", resp, Some(resp), None, "none")]

\* Mutant of write: the pass-through clears the token.
write_droptoken(self, resp) ==
    IF self.state = "Created" THEN
        LET s == [self EXCEPT !.state = "Unchanged"]
        IN  [self |-> s, out |-> create(s, resp)]
    ELSE IF self.state = "Updated" /\ IsSome(self.token) /\ IsSome(self.identity) THEN
        LET s == [self EXCEPT !.state = "Unchanged"]
        IN  [self |-> s, out |-> save(s, resp)]
    ELSE IF self.state = "Deleted" /\ IsSome(self.token) THEN
        LET s == [self EXCEPT !.state = "Unchanged"]
        IN  [self |-> s, out |-> remove(Unwrap(self.token), resp)]
    ELSE IF self.state \in {"Deleted", "Updated"} THEN
        [self |-> self,
         out |-> Outcome("Err", 400, "TokenRequired", resp, None, None, "none")]
    ELSE
        [self |-> [self EXCEPT !.state = "Unchanged", !.token = None],
         out |-> Outcome("Done", 200, "", resp, Some(resp), None, "none")]

\* write: the instance after the call and the outcome of the call.
write(self, resp) ==
    IF self.state = "Created" THEN
        LET s == [self EXCEPT !.state = "Unchanged"]
        IN  [self |-> s, out |-> create(s, resp)]
    ELSE IF self.state = "Updated" /\ IsSome(self.token) /\ IsSome(self.identity) THEN
        LET s == [self EXCEPT !.state = "Unchanged"]
        IN  [self |-> s, out |-> save(s, resp)]
    ELSE IF self.state = "Deleted" /\ IsSome(self.token) THEN
        LET s == [self EXCEPT !.state = "Unchanged"]
        IN  [self |-> s, out |-> remove(Unwrap(self.token), resp)]
    ELSE IF self.state \in {"Deleted", "Updated"} THEN
        [self |-> self,
         out |-> Outcome("Err", 400, "TokenRequired", resp, None, None, "none")]
    ELSE
        [self |-> [self EXCEPT !.state = "Unchanged"],
         out |-> Outcome("Done", 200, "", resp, Some(resp), None, "none")]

\* Mutant of create_reply: an error of the actor is swallowed.
create_reply_swallow(out, reply) ==
    [out EXCEPT !.reply = reply, !.status = 200, !.delivered = Some(out.draft)]

\* The and_then closures of create / save / remove: the actor's answer
\* folded into the future's result.
create_reply(out, reply) ==
    IF reply = "Ok"
    THEN [out EXCEPT !.reply = reply, !.status = 200, !.delivered = Some(out.draft)]
    ELSE [out EXCEPT !.reply = reply, !.status = 500, !.error = reply]

\* Mutant of save_reply: an error of the actor is swallowed.
save_reply_swallow(out, reply) ==
    [out EXCEPT !.reply = reply, !.status = 200, !.delivered = Some(out.draft)]

save_reply(out, reply) ==
    IF reply = "Ok"
    THEN [out EXCEPT !.reply = reply, !.status = 200, !.delivered = Some(out.draft)]
    ELSE [out EXCEPT !.reply = reply, !.status = 500, !.error = reply]

remove_reply(out, reply) ==
    IF reply = "Ok"
    THEN [out EXCEPT !.reply = reply, !.status = 200, !.delivered = Some(out.draft)]
    ELSE [out EXCEPT !.reply = reply, !.status = 500, !.error = reply]

FoldReply(out, reply) ==
    IF Unwrap(out.msg).kind = "create" THEN create_reply(out, reply)
    ELSE IF Unwrap(out.msg).kind = "update" THEN save_reply(out, reply)
    ELSE remove_reply(out, reply)

\* Mutant of load: the first field of the header is taken for the token.
load_first(auth_header) ==
    IF IsSome(auth_header) THEN
        IF IsSome(ToStr(Unwrap(auth_header))) THEN
            LET fields == Split(Unwrap(ToStr(Unwrap(auth_header))), CharOf(SP))
                scheme == Nth(fields, 1)
                token == Nth(fields, 2)
            IN  IF IsSome(scheme) /\ IsSome(token) THEN Some(Unwrap(scheme)) ELSE None
        ELSE None
    ELSE None

\* load: Some(token) when a FindIdentity is sent, None when the future is
\* FutOk(None) right away.
load(auth_header) ==
    IF IsSome(auth_header) THEN
        IF IsSome(ToStr(Unwrap(auth_header))) THEN
            LET fields == Split(Unwrap(ToStr(Unwrap(auth_header))), CharOf(SP))
                scheme == Nth(fields, 1)
                token == Nth(fields, 2)
            IN  IF IsSome(scheme) /\ IsSome(token) THEN Some(Unwrap(token)) ELSE None
        ELSE None
    ELSE None

\* load on each of the headers the requests present.
loadOf == [h \in AuthHeaders |-> load(h)]

\* The and_then closure of load: the actor's answer as Option<model>.
load_reply(res) == IF res.ok THEN Some(res.val) ELSE None

\* Mutant of from_request: userid and token of the record change places.
from_request_swapped(found) ==
    IF IsSome(found) THEN
        [id |-> Unwrap(found).id, state |-> "Updated",
         identity |-> Some(Unwrap(found).token), token |-> Some(Unwrap(found).userid)]
    ELSE
        [id |-> -1, state |-> "Unchanged", identity |-> None, token |-> None]

\* The closure of from_request: Option<SqlIdentityModel> to SqlIdentity.
from_request(found) ==
    IF IsSome(found) THEN
        [id |-> Unwrap(found).id, state |-> "Updated",
         identity |-> Some(Unwrap(found).userid), token |-> Some(Unwrap(found).token)]
    ELSE
        [id |-> -1, state |-> "Unchanged", identity |-> None, token |-> None]

\* -------------------------------------------------- SqlIdentityBuilder
DEFAULT_RESPONSE_HDR == "X-Actix-Auth"
DEFAULT_POOL_SIZE == 3

Variants == {"Sqlite", "Mysql", "Pg"}

\* str::starts_with
starts_with(s, prefix) ==
    Len(s) >= Len(prefix) /\ SubSeq(s, 1, Len(prefix)) = prefix

\* Mutant of variant: a URI without a known prefix has no variant.
variant_strict(uri) ==
    IF starts_with(uri, "mysql://") THEN "Mysql"
    ELSE IF starts_with(uri, "postgres://") \/ starts_with(uri, "postgresql://") THEN "Pg"
    ELSE IF starts_with(uri, "sqlite://") THEN "Sqlite"
    ELSE "Unknown"

variant(uri) ==
    IF starts_with(uri, "mysql://") THEN "Mysql"
    ELSE IF starts_with(uri, "postgres://") \/ starts_with(uri, "postgresql://") THEN "Pg"
    ELSE "Sqlite"

SqlIdentityBuilder_new(uri) ==
    [pool |-> DEFAULT_POOL_SIZE, uri |-> uri, hdr |-> DEFAULT_RESPONSE_HDR,
     variant |-> variant(uri)]

response_header(self, hdr) == [self EXCEPT !.hdr = hdr]
pool_size(self, count) == [self EXCEPT !.pool = count]
sqlite(self) == [self EXCEPT !.variant = "Sqlite"]
mysql(self) == [self EXCEPT !.variant = "Mysql"]
postgresql(self) == [self EXCEPT !.variant = "Pg"]

\* SqlActor::sqlite / mysql / pg (mod sql): the address of an actor over a
\* pool of connections of that kind, or the error of setting the pool up.
ActorOutcomes == {"Ok", "ConnectionError", "SqlVariantNotSupported"}
SqlActor_start(kind, pool, uri, outcome) ==
    [ok |-> outcome = "Ok",
     error |-> IF outcome = "Ok" THEN "" ELSE outcome,
     addr |-> [variant |-> kind, pool |-> pool, uri |-> uri]]

NoInner == [addr |-> [variant |-> "", pool |-> 0, uri |-> ""], hdr |-> ""]

\* finish: Ok(SqlIdentityPolicy(SqlIdentityInner::new(addr, hdr))), or the
\* error of the actor's constructor, passed on by the ? operator.
finish(self, outcome) ==
    LET actor == IF self.variant = "Sqlite"
                    THEN SqlActor_start("Sqlite", self.pool, self.uri, outcome)
                 ELSE IF self.variant = "Mysql"
                    THEN SqlActor_start("Mysql", self.pool, self.uri, outcome)
                 ELSE SqlActor_start("Pg", self.pool, self.uri, outcome)
    IN  IF actor.ok
        THEN [ok |-> TRUE, error |-> "", inner |-> [addr |-> actor.addr, hdr |-> self.hdr]]
        ELSE [ok |-> FALSE, error |-> actor.error, inner |-> NoInner]

\* The connection URIs, pool sizes and header names given to the builder.
Uris == {"mysql://h/db", "postgres://h/db", "postgresql://h/db",
         "sqlite://my.db", "my.db", "oracle://h/db", "mysql:/h/db"}
PoolSizes == {1, DEFAULT_POOL_SIZE}
HeaderNames == {"X-MY-RESPONSE"}

\* The policy the requests of Spec and SpecServer are served by.
ServingPolicy == finish(SqlIdentityBuilder_new("sqlite://my.db"), "Ok")

\* --------------------------------------------------- persistence actor
RowsWith(rs, token) == {row \in rs : row.token = token}

Find(rs, token) ==
    IF RowsWith(rs, token) /= {}
    THEN [ok |-> TRUE, val |-> CHOOSE row \in RowsWith(rs, token) : TRUE]
    ELSE [ok |-> FALSE, val |-> [id |-> -1, token |-> "", userid |-> ""]]

\* UpdateIdentity: create inserts a new row and fails with Conflict when the
\* token exists; update rewrites the row of the token and fails with
\* NotFound when there is none.
Update(rs, next, msg) ==
    IF msg.kind = "create" THEN
        IF RowsWith(rs, msg.token) /= {}
        THEN [reply |-> "Conflict", rows |-> rs, nextId |-> next]
        ELSE [reply |-> "Ok",
              rows |-> rs \cup {[id |-> next, token |-> msg.token,
                                  userid |-> Unwrap(msg.userid)]},
              nextId |-> next + 1]
    ELSE
        IF RowsWith(rs, msg.token) = {}
        THEN [reply |-> "NotFound", rows |-> rs, nextId |-> next]
        ELSE [reply |-> "Ok",
              rows |-> {IF row.token = msg.token
                        THEN [row EXCEPT !.userid = Unwrap(msg.userid)]
                        ELSE row : row \in rs},
              nextId |-> next]

\* DeleteIdentity: deletes the row of the token; no row is a success too.
Delete(rs, msg) ==
    [reply |-> "Ok", rows |-> rs \ RowsWith(rs, msg.token)]

\* ------------------------------------------------------------- actions
InitRequests ==
    /\ \E existing \in BOOLEAN :
        /\ rows = IF existing
                  THEN {[id |-> 1, token |-> Base64Encode([i \in 1..ARR_LEN |-> 0]),
                         userid |-> "alice"]}
                  ELSE {}
        /\ nextId = IF existing THEN 2 ELSE 1
    /\ pc = [r \in Requests |-> "new"]
    /\ header = [r \in Requests |-> None]
    /\ ident = [r \in Requests |-> NoIdentity]
    /\ lastCall = [r \in Requests |-> NoCall]
    /\ writes = [r \in Requests |-> <<>>]

\* The state when the server starts to serve: the policy has been built.
Init ==
    /\ InitRequests
    /\ builder = Some(SqlIdentityBuilder_new("sqlite://my.db"))
    /\ policy = Some(ServingPolicy)

\* The state before the policy is configured.
InitSetup ==
    /\ InitRequests
    /\ builder = None
    /\ policy = None

requestVars == <<rows, nextId, pc, header, ident, lastCall, writes>>

BuilderNew ==
    /\ builder = None
    /\ \E uri \in Uris : builder' = Some(SqlIdentityBuilder_new(uri))
    /\ UNCHANGED <<requestVars, policy>>

Configuring == IsSome(builder) /\ policy = None

BuilderResponseHeader ==
    /\ Configuring
    /\ \E hdr \in HeaderNames : builder' = Some(response_header(Unwrap(builder), hdr))
    /\ UNCHANGED <<requestVars, policy>>

BuilderPoolSize ==
    /\ Configuring
    /\ \E count \in PoolSizes : builder' = Some(pool_size(Unwrap(builder), count))
    /\ UNCHANGED <<requestVars, policy>>

BuilderSqlite ==
    /\ Configuring
    /\ builder' = Some(sqlite(Unwrap(builder)))
    /\ UNCHANGED <<requestVars, policy>>

BuilderMysql ==
    /\ Configuring
    /\ builder' = Some(mysql(Unwrap(builder)))
    /\ UNCHANGED <<requestVars, policy>>

BuilderPostgresql ==
    /\ Configuring
    /\ builder' = Some(postgresql(Unwrap(builder)))
    /\ UNCHANGED <<requestVars, policy>>

\* finish; the builder it consumed stays on record.
BuilderFinish ==
    /\ Configuring
    /\ \E outcome \in ActorOutcomes : policy' = Some(finish(Unwrap(builder), outcome))
    /\ UNCHANGED <<requestVars, builder>>

\* from_request up to the point where load either sent FindIdentity or
\* returned FutOk(None); the request's header is drawn from hs.
FromRequest(r, hs) ==
    /\ pc[r] = "new"
    /\ IsSome(policy) /\ Unwrap(policy).ok
    /\ \E h \in hs :
        /\ header' = [header EXCEPT ![r] = h]
        /\ IF IsSome(loadOf[h])
           THEN /\ pc' = [pc EXCEPT ![r] = "loading"]
                /\ UNCHANGED ident
           ELSE /\ pc' = [pc EXCEPT ![r] = "active"]
                /\ ident' = [ident EXCEPT ![r] = from_request(None)]
    /\ UNCHANGED <<rows, nextId, lastCall, writes, builder, policy>>

\* The actor answers FindIdentity; the closures of load and from_request run.
HandleFindWith(r, storeUp) ==
    /\ pc[r] = "loading"
    /\ LET res == IF storeUp THEN Find(rows, Unwrap(loadOf[header[r]]))
                  ELSE Find({}, Unwrap(loadOf[header[r]]))
       IN  ident' = [ident EXCEPT ![r] = from_request(load_reply(res))]
    /\ pc' = [pc EXCEPT ![r] = "active"]
    /\ UNCHANGED <<rows, nextId, header, lastCall, writes, builder, policy>>

HandleFind(r) == \E storeUp \in BOOLEAN : HandleFindWith(r, storeUp)
HandleFindOk(r) == HandleFindWith(r, TRUE)

\* The FindIdentity message does not reach the actor: map_err turns the
\* MailboxError into the error of from_request's future.
FindMailboxError(r) ==
    /\ pc[r] = "loading"
    /\ pc' = [pc EXCEPT ![r] = "failed"]
    /\ UNCHANGED <<rows, nextId, header, ident, lastCall, writes, builder, policy>>

Remember(r) ==
    /\ pc[r] = "active"
    /\ \E value \in Subjects, arr \in RandArrs :
        /\ ident' = [ident EXCEPT ![r] = remember(ident[r], value, arr)]
        /\ lastCall' = [lastCall EXCEPT ![r] = [op |-> "remember", value |-> value,
                                               token |-> Base64Encode(arr)]]
    /\ UNCHANGED <<rows, nextId, pc, header, writes, builder, policy>>

Forget(r) ==
    /\ pc[r] = "active"
    /\ ident' = [ident EXCEPT ![r] = forget(ident[r])]
    /\ lastCall' = [lastCall EXCEPT ![r] = [op |-> "forget", value |-> "", token |-> ""]]
    /\ UNCHANGED <<rows, nextId, pc, header, writes, builder, policy>>

\* One write call; an entry of writes records the instance it was called on,
\* the response it was given, the call made before it and its outcome.
Write(r) ==
    /\ pc[r] = "active"
    /\ \E resp \in Resps :
        LET w == write(ident[r], resp)
        IN  /\ ident' = [ident EXCEPT ![r] = w.self]
            /\ writes' = [writes EXCEPT ![r] =
                   Append(@, [self |-> ident[r], given |-> resp,
                              last |-> lastCall[r], out |-> w.out])]
    /\ lastCall' = [lastCall EXCEPT ![r] = [op |-> "write", value |-> "", token |-> ""]]
    /\ UNCHANGED <<rows, nextId, pc, header, builder, policy>>

Pending(r, i) ==
    /\ i \in 1..Len(writes[r])
    /\ writes[r][i].out.reply = "pending"

Resolve(r, i, reply) ==
    writes' = [writes EXCEPT ![r][i].out = FoldReply(@, reply)]

\* The actor handles UpdateIdentity (create or update).
HandleUpdateIdentityWith(r, i, storeUp) ==
    /\ Pending(r, i)
    /\ Unwrap(writes[r][i].out.msg).kind \in {"create", "update"}
    /\ LET res == IF storeUp THEN Update(rows, nextId, Unwrap(writes[r][i].out.msg))
                  ELSE [reply |-> "StoreError", rows |-> rows, nextId |-> nextId]
       IN  /\ rows' = res.rows
           /\ nextId' = res.nextId
           /\ Resolve(r, i, res.reply)
    /\ UNCHANGED <<pc, header, ident, lastCall, builder, policy>>

HandleUpdateIdentity(r, i) == \E storeUp \in BOOLEAN : HandleUpdateIdentityWith(r, i, storeUp)
HandleUpdateIdentityOk(r, i) == HandleUpdateIdentityWith(r, i, TRUE)

\* The actor handles DeleteIdentity.
HandleDeleteIdentityWith(r, i, storeUp) ==
    /\ Pending(r, i)
    /\ Unwrap(writes[r][i].out.msg).kind = "delete"
    /\ LET res == IF storeUp THEN Delete(rows, Unwrap(writes[r][i].out.msg))
                  ELSE [reply |-> "StoreError", rows |-> rows]
       IN  /\ rows' = res.rows
           /\ Resolve(r, i, res.reply)
    /\ UNCHANGED <<nextId, pc, header, ident, lastCall, builder, policy>>

HandleDeleteIdentity(r, i) == \E storeUp \in BOOLEAN : HandleDeleteIdentityWith(r, i, storeUp)
HandleDeleteIdentityOk(r, i) == HandleDeleteIdentityWith(r, i, TRUE)

\* A message sent by write does not reach the actor.
WriteMailboxError(r, i) ==
    /\ Pending(r, i)
    /\ Resolve(r, i, "MailboxError")
    /\ UNCHANGED <<rows, nextId, pc, header, ident, lastCall, builder, policy>>

\* Spec: one request, whose instance is driven through every sequence of
\* remember / forget / write calls with at most MaxWrites write calls.
Instance == 1

BoundedWrite(r) == Len(writes[r]) < MaxWrites /\ Write(r)

Next ==
    \/ FromRequest(Instance, AuthHeaders)
    \/ HandleFind(Instance)
    \/ FindMailboxError(Instance)
    \/ Remember(Instance)
    \/ Forget(Instance)
    \/ BoundedWrite(Instance)
    \/ \E i \in 1..MaxWrites :
        \/ HandleUpdateIdentity(Instance, i)
        \/ HandleDeleteIdentity(Instance, i)
        \/ WriteMailboxError(Instance, i)

Spec == Init /\ [][Next]_vars

\* SpecServer: NumRequests concurrent requests, each driven the way the
\* identity middleware drives it: from_request, the handler's remember /
\* forget calls, then one write when the response is produced.
HandlerRemember(r) == writes[r] = <<>> /\ Remember(r)
HandlerForget(r) == writes[r] = <<>> /\ Forget(r)
ResponseWrite(r) == writes[r] = <<>> /\ Write(r)

ServerNext ==
    \E r \in Requests :
        \/ FromRequest(r, ServerHeaders)
        \/ HandleFind(r)
        \/ FindMailboxError(r)
        \/ HandlerRemember(r)
        \/ HandlerForget(r)
        \/ ResponseWrite(r)
        \/ HandleUpdateIdentity(r, 1)
        \/ HandleDeleteIdentity(r, 1)
        \/ WriteMailboxError(r, 1)

SpecServer == Init /\ [][ServerNext]_vars

\* SpecWorking: the requests of SpecServer with a working store: every
\* message reaches the actor and the store answers it.
WorkingNext ==
    \E r \in Requests :
        \/ FromRequest(r, ServerHeaders)
        \/ HandleFindOk(r)
        \/ HandlerRemember(r)
        \/ HandlerForget(r)
        \/ ResponseWrite(r)
        \/ HandleUpdateIdentityOk(r, 1)
        \/ HandleDeleteIdentityOk(r, 1)

SpecWorking == Init /\ [][WorkingNext]_vars

\* SpecSetup: the policy is configured and built, and a first request
\* arrives once there is a policy to hand to the identity middleware.
SetupNext ==
    \/ BuilderNew
    \/ BuilderResponseHeader
    \/ BuilderPoolSize
    \/ BuilderSqlite
    \/ BuilderMysql
    \/ BuilderPostgresql
    \/ BuilderFinish
    \/ FromRequest(Instance, ServerHeaders)

SpecSetup == InitSetup /\ [][SetupNext]_vars

TypeOK ==
    /\ \A row \in rows : row.id \in 1..(nextId - 1) /\ row.userid \in Users
    /\ \A r \in Requests :
        /\ pc[r] \in {"new", "loading", "active", "failed"}
        /\ header[r] \in AuthHeaders
        /\ ident[r].state \in States
        /\ Len(writes[r]) <= MaxWrites

\* -------------------------------------------------------------- claims
Failures == {"StoreError", "Conflict", "NotFound", "MailboxError"}

\* C1 as stated: after any remember / forget calls, of consecutive write
\* calls on one instance the second and every later one dispatches nothing
\* and passes the response it was given through.
C1_Original ==
    \A r \in Requests : \A i \in 2..Len(writes[r]) :
        writes[r][i].last.op = "write" =>
            /\ writes[r][i].out.msg = None
            /\ writes[r][i].out.ret = "Done"
            /\ writes[r][i].out.delivered = Some(writes[r][i].given)

\* C1 amended: of consecutive write calls on one instance the second and
\* every later one dispatches nothing; it passes the response through,
\* unless the write before it rejected with TokenRequired, and then it
\* rejects with TokenRequired again.
C1_AtMostOneWrite ==
    \A r \in Requests : \A i \in 2..Len(writes[r]) :
        writes[r][i].last.op = "write" =>
            /\ writes[r][i].out.msg = None
            /\ IF writes[r][i - 1].out.ret = "Err"
               THEN /\ writes[r][i].out.ret = "Err"
                    /\ writes[r][i].out.error = "TokenRequired"
                    /\ writes[r][i].out.delivered = None
               ELSE /\ writes[r][i].out.ret = "Done"
                    /\ writes[r][i].out.delivered = Some(writes[r][i].given)

C1_Witness ==
    \E r \in Requests :
        /\ Len(writes[r]) >= 2
        /\ IsSome(writes[r][1].out.msg)
        /\ writes[r][2].last.op = "write"
        /\ writes[r][2].out.ret = "Done"

\* The instance of r is as from_request built it from a record it found.
Loaded(r) ==
    /\ pc[r] = "active"
    /\ lastCall[r].op = "none"
    /\ ident[r].id /= -1

C3_RememberThenWrite ==
    \A r \in Requests : \A i \in 1..Len(writes[r]) :
        LET e == writes[r][i]
            tok == e.last.token
        IN  e.last.op = "remember" =>
                /\ e.out.ret = "Future"
                /\ IsSome(e.out.msg)
                /\ Unwrap(e.out.msg).kind = "create"
                /\ Unwrap(e.out.msg).token = tok
                /\ Unwrap(e.out.msg).userid = Some(e.last.value)
                /\ e.out.draft = Append(e.given, tok)
                /\ (e.out.reply = "Ok" => e.out.delivered = Some(Append(e.given, tok)))

C3_Witness ==
    \E r \in Requests : \E i \in 1..Len(writes[r]) :
        /\ writes[r][i].last.op = "remember"
        /\ writes[r][i].out.reply = "Ok"
        /\ IsSome(writes[r][i].out.delivered)

\* C4: when the persistence call of a write fails, by an error of the store
\* or because the message does not reach the actor, the outcome is a server
\* error and no response is delivered.
C4_WriteFailuresSurface ==
    \A r \in Requests : \A i \in 1..Len(writes[r]) :
        writes[r][i].out.reply \in Failures =>
            /\ writes[r][i].out.status = 500
            /\ writes[r][i].out.delivered = None

C4_Witness ==
    \E r \in Requests : \E i \in 1..Len(writes[r]) :
        /\ writes[r][i].out.reply = "StoreError"
        /\ Unwrap(writes[r][i].out.msg).kind = "create"
        /\ writes[r][i].out.draft /= writes[r][i].given

\* C5 as stated: from_request never ends in an error, whatever goes wrong
\* with the lookup.
C5_ResolutionNeverFails ==
    \A r \in Requests : pc[r] /= "failed"

\* C6: a write after forget on an instance without a token is rejected with
\* the bad-request error TokenRequired, sends no message and delivers no
\* response.
C6_ForgetUnbound ==
    \A r \in Requests : \A i \in 1..Len(writes[r]) :
        LET e == writes[r][i]
        IN  e.last.op = "forget" /\ e.self.token = None =>
                /\ e.out.ret = "Err"
                /\ e.out.status = 400
                /\ e.out.error = "TokenRequired"
                /\ e.out.msg = None
                /\ e.out.delivered = None

C6_Witness ==
    \E r \in Requests : \E i \in 1..Len(writes[r]) :
        /\ writes[r][i].last.op = "forget"
        /\ writes[r][i].self.token = None
        /\ writes[r][i].self.id = -1

\* C7: forget clears identity, sets state to Deleted and leaves the token as
\* it was; a write after forget with a token present sends one delete
\* addressed by that token and adds no header to the response.
C7_Forget ==
    /\ [][\A r \in Requests :
            lastCall[r].op /= "forget" /\ lastCall'[r].op = "forget" =>
                /\ ident'[r].identity = None
                /\ ident'[r].state = "Deleted"
                /\ ident'[r].token = ident[r].token]_vars
    /\ [](\A r \in Requests : \A i \in 1..Len(writes[r]) :
            LET e == writes[r][i]
            IN  e.last.op = "forget" /\ IsSome(e.self.token) =>
                    /\ e.out.ret = "Future"
                    /\ IsSome(e.out.msg)
                    /\ Unwrap(e.out.msg).kind = "delete"
                    /\ Unwrap(e.out.msg).token = Unwrap(e.self.token)
                    /\ e.out.draft = e.given)

C7_Witness ==
    \E r \in Requests : \E i \in 1..Len(writes[r]) :
        /\ writes[r][i].last.op = "forget"
        /\ IsSome(writes[r][i].self.token)
        /\ writes[r][i].out.reply = "Ok"

\* C8 as stated: once a write has consumed the instance, no later write on
\* it sends a message, whatever remember / forget calls come in between.
C8_Original ==
    \A r \in Requests : \A i, j \in 1..Len(writes[r]) :
        i < j /\ writes[r][i].out.ret /= "Err" => writes[r][j].out.msg = None

\* C8 amended: once a write has consumed the instance, the next write sends
\* a message exactly when remember, or forget with a token present, was
\* called in between.
C8_Rearm ==
    \A r \in Requests : \A j \in 2..Len(writes[r]) :
        LET e == writes[r][j]
        IN  writes[r][j - 1].out.ret /= "Err" =>
                (IsSome(e.out.msg) <=>
                    \/ e.last.op = "remember"
                    \/ e.last.op = "forget" /\ IsSome(e.self.token))

C8_Witness ==
    \E r \in Requests :
        /\ Len(writes[r]) >= 2
        /\ writes[r][1].out.ret /= "Err"
        /\ writes[r][2].last.op = "remember"
        /\ IsSome(writes[r][2].out.msg)

\* C9 as stated: once the create of a remember on an instance loaded from a
\* record has succeeded, the token the request presented no longer finds a
\* record.
C9_StaleTokenInvalidated ==
    \A r \in Requests :
        (/\ ident[r].id /= -1
         /\ \E i \in 1..Len(writes[r]) :
                /\ writes[r][i].last.op = "remember"
                /\ writes[r][i].out.reply = "Ok")
        => ~Find(rows, Unwrap(load(header[r]))).ok

\* A header value with a non-empty scheme before its first space and a
\* non-empty credential after it.
HasSchemeAndCredential(h) ==
    /\ IsSome(h)
    /\ \E k \in 2..(Len(Unwrap(h)) - 1) :
        /\ Unwrap(h)[k] = SP
        /\ \A j \in 1..(k - 1) : Unwrap(h)[j] /= SP

\* C10 as stated: FindIdentity is sent only for a request whose
\* Authorization header has both a scheme and a credential.
C10_FindOnlyWithBothHalves ==
    \A r \in Requests : pc[r] = "loading" => HasSchemeAndCredential(header[r])

\* The write of request r has just been answered Ok by the actor.
Succeeds(r) ==
    /\ Len(writes[r]) = 1
    /\ writes[r][1].out.reply = "pending"
    /\ writes'[r][1].out.reply = "Ok"

\* The value the response carries last under the configured header name.
LastHeader(resp) == resp[Len(resp)]

\* C11: with a working store, a request without a header resolves anonymous
\* and sends no find; when the write after remember(u) succeeds, the store
\* holds exactly one row under the token the response carries, with userid
\* u; a request presenting a stored token resolves the identity of its row;
\* when the write after forget succeeds, the row of the token is gone and
\* the response delivered is the handler's response.
C11_EndToEnd ==
    /\ [](\A r \in Requests :
            header[r] = None =>
                /\ pc[r] /= "loading"
                /\ (pc[r] = "active" /\ lastCall[r].op = "none" => ident[r] = NoIdentity))
    /\ [][\A r \in Requests :
            Succeeds(r) /\ writes[r][1].last.op = "remember" =>
                LET e == writes'[r][1]
                    tok == LastHeader(Unwrap(e.out.delivered))
                IN  /\ Cardinality(RowsWith(rows', tok)) = 1
                    /\ \A row \in RowsWith(rows', tok) : row.userid = e.last.value]_vars
    /\ [][\A r \in Requests :
            pc[r] = "loading" /\ pc'[r] = "active" =>
                \A row \in rows :
                    header[r] = Some(Bytes("B " \o row.token)) =>
                        ident'[r].identity = Some(row.userid)]_vars
    /\ [][\A r \in Requests :
            Succeeds(r) /\ writes[r][1].last.op = "forget" =>
                LET e == writes'[r][1]
                IN  /\ RowsWith(rows', Unwrap(e.self.token)) = {}
                    /\ e.out.delivered = Some(e.given)]_vars

\* The whole scenario has run: the first request logged bob in on an empty
\* store, the second presented the token issued and logged out.
C11_Witness ==
    \E r1, r2 \in Requests :
        /\ header[r1] = None
        /\ Len(writes[r1]) = 1 /\ Len(writes[r2]) = 1
        /\ writes[r1][1].last.op = "remember"
        /\ writes[r1][1].out.reply = "Ok"
        /\ header[r2] = Some(Bytes("B " \o LastHeader(Unwrap(writes[r1][1].out.delivered))))
        /\ writes[r2][1].self.id = 1
        /\ writes[r2][1].last.op = "forget"
        /\ writes[r2][1].out.reply = "Ok"
        /\ writes[r2][1].out.delivered = Some(writes[r2][1].given)
        /\ rows = {}
        /\ nextId = 2

\* The store has just answered the message of request r's write.
Answered(r) ==
    /\ Len(writes[r]) = 1
    /\ writes[r][1].out.reply = "pending"
    /\ writes'[r][1].out.reply \notin {"pending", "StoreError", "MailboxError"}

\* C12: whatever the interleaving of the requests' creates, updates and
\* deletes, the store never holds two rows under one token; a create whose
\* token has a row when the store handles it is answered Conflict, an update
\* whose token has no row then is answered NotFound, either leaves the rows
\* as they are and ends the write in a server error.
C12_OneRowPerToken ==
    /\ [](\A row1, row2 \in rows : row1.token = row2.token => row1 = row2)
    /\ [][\A r \in Requests :
            Answered(r) =>
                LET m == Unwrap(writes[r][1].out.msg)
                    out == writes'[r][1].out
                IN  /\ m.kind = "create" /\ RowsWith(rows, m.token) /= {} =>
                            out.reply = "Conflict" /\ out.status = 500 /\ rows' = rows
                    /\ m.kind = "update" /\ RowsWith(rows, m.token) = {} =>
                            out.reply = "NotFound" /\ out.status = 500 /\ rows' = rows]_vars

\* Two requests raced on one token: one deleted its row before the update
\* of the other, which had loaded the row, was handled.
C12_Witness ==
    \E r1, r2 \in Requests :
        /\ Len(writes[r1]) = 1 /\ Len(writes[r2]) = 1
        /\ IsSome(writes[r1][1].out.msg) /\ IsSome(writes[r2][1].out.msg)
        /\ Unwrap(writes[r1][1].out.msg).kind = "update"
        /\ writes[r1][1].out.reply = "NotFound"
        /\ Unwrap(writes[r2][1].out.msg).kind = "delete"
        /\ writes[r2][1].out.reply = "Ok"
        /\ Unwrap(writes[r2][1].out.msg).token = Unwrap(writes[r1][1].out.msg).token
        /\ rows = {}

\* Two requests raced to create one token: the second was refused.
C12_Conflict ==
    \E r1, r2 \in Requests :
        /\ Len(writes[r1]) = 1 /\ Len(writes[r2]) = 1
        /\ IsSome(writes[r1][1].out.msg) /\ IsSome(writes[r2][1].out.msg)
        /\ Unwrap(writes[r1][1].out.msg).kind = "create"
        /\ writes[r1][1].out.reply = "Ok"
        /\ Unwrap(writes[r2][1].out.msg).kind = "create"
        /\ writes[r2][1].out.reply = "Conflict"
        /\ Cardinality(rows) = 1

\* A connection URI that names none of the backends.
KnownPrefixes == {"mysql://", "postgres://", "postgresql://", "sqlite://"}
Unmappable(uri) == \A prefix \in KnownPrefixes : ~starts_with(uri, prefix)

\* C13 as stated: finish on a builder made from a URI that names no known
\* backend (and whose variant was not forced to another) fails with the
\* variant-not-supported error.
C13_Original ==
    IsSome(policy) /\ Unmappable(Unwrap(builder).uri)
                   /\ Unwrap(builder).variant = variant(Unwrap(builder).uri) =>
        /\ ~Unwrap(policy).ok
        /\ Unwrap(policy).error = "SqlVariantNotSupported"

\* C13 amended: new maps every URI to a variant, a URI without the mysql or
\* postgres prefixes to Sqlite; finish builds the policy over the actor of
\* the builder's variant, pool size and URI with the builder's header name,
\* or fails with the error of constructing that actor; no request is served
\* unless finish succeeded.
C13_DefaultsToSqlite ==
    /\ [][builder = None /\ builder' /= None =>
            LET b == Unwrap(builder')
            IN  /\ b.variant \in Variants
                /\ (Unmappable(b.uri) => b.variant = "Sqlite")
                /\ b.pool = DEFAULT_POOL_SIZE
                /\ b.hdr = DEFAULT_RESPONSE_HDR]_vars
    /\ [](IsSome(policy) =>
            LET b == Unwrap(builder)
                p == Unwrap(policy)
            IN  IF p.ok
                THEN /\ p.inner.addr = [variant |-> b.variant, pool |-> b.pool, uri |-> b.uri]
                     /\ p.inner.hdr = b.hdr
                ELSE /\ p.error \in ActorOutcomes \ {"Ok"}
                     /\ p.inner = NoInner)
    /\ [](\A r \in Requests : pc[r] /= "new" => IsSome(policy) /\ Unwrap(policy).ok)

\* A policy was built from a URI that names no known backend, over the
\* Sqlite actor, and serves a request.
C13_Witness ==
    /\ IsSome(policy)
    /\ Unwrap(builder).uri = "oracle://h/db"
    /\ Unwrap(policy).ok
    /\ Unwrap(policy).inner.addr.variant = "Sqlite"
    /\ Unwrap(policy).inner.addr.uri = "oracle://h/db"
    /\ pc[Instance] /= "new"

\* Request r has just made a write call.
Wrote(r) == Len(writes'[r]) = Len(writes[r]) + 1

\* C14: a write on an instance in state Unchanged sends no message and
\* returns, as done, the response it was given with no header added; the
\* call leaves state, identity and token of the instance, and the store,
\* as they were.
C14_UnchangedPassThrough ==
    /\ [](\A r \in Requests : \A i \in 1..Len(writes[r]) :
            LET e == writes[r][i]
            IN  e.self.state = "Unchanged" =>
                    /\ e.out.msg = None
                    /\ e.out.ret = "Done"
                    /\ e.out.status = 200
                    /\ e.out.draft = e.given
                    /\ e.out.delivered = Some(e.given))
    /\ [][\A r \in Requests :
            Wrote(r) /\ ident[r].state = "Unchanged" =>
                /\ ident'[r] = ident[r]
                /\ rows' = rows]_vars

\* A write found the instance Unchanged with an identity and a token (an
\* earlier write had consumed a remember) and left them in place.
C14_Witness ==
    \E r \in Requests :
        /\ Len(writes[r]) = 2
        /\ writes[r][2].self.state = "Unchanged"
        /\ IsSome(writes[r][2].self.token)
        /\ IsSome(writes[r][2].self.identity)
        /\ ident[r] = writes[r][2].self

\* The write of entry e went down the create path.
OnCreatePath(e) == IsSome(e.out.msg) /\ Unwrap(e.out.msg).kind = "create"

\* C15: a write goes down the create path exactly when the call before it
\* was remember; on that path the response has the values it was given
\* under the token header, in their order, followed by the instance's
\* token; on every other path (update, delete, pass-through, TokenRequired)
\* the response is as it was given; a response delivered is that response.
C15_HeaderOnlyOnCreate ==
    \A r \in Requests : \A i \in 1..Len(writes[r]) :
        LET e == writes[r][i]
        IN  /\ OnCreatePath(e) <=> e.last.op = "remember"
            /\ IF OnCreatePath(e)
               THEN /\ Len(e.out.draft) = Len(e.given) + 1
                    /\ SubSeq(e.out.draft, 1, Len(e.given)) = e.given
                    /\ LastHeader(e.out.draft) = Unwrap(e.self.token)
               ELSE e.out.draft = e.given
            /\ e.out.delivered \in {None, Some(e.out.draft)}

\* One instance went down the update path and then, after remember, down
\* the create path; both responses were delivered.
C15_Witness ==
    \E r \in Requests :
        /\ Len(writes[r]) = 2
        /\ IsSome(writes[r][1].out.msg)
        /\ Unwrap(writes[r][1].out.msg).kind = "update"
        /\ writes[r][1].out.delivered = Some(<<OLD>>)
        /\ OnCreatePath(writes[r][2])
        /\ IsSome(writes[r][2].out.delivered)
        /\ Len(Unwrap(writes[r][2].out.delivered)) = 2
        /\ Unwrap(writes[r][2].out.delivered)[1] = OLD

\* C16: an instance in state Created has a token and an identity; a write
\* that finds the instance Created goes down the create path with its
\* message sent, and no write ends in the TokenNotFound (unauthorized)
\* error.
C16_CreatedHasToken ==
    /\ \A r \in Requests :
            ident[r].state = "Created" =>
                IsSome(ident[r].token) /\ IsSome(ident[r].identity)
    /\ \A r \in Requests : \A i \in 1..Len(writes[r]) :
            LET e == writes[r][i]
            IN  /\ e.out.error /= "TokenNotFound"
                /\ e.out.status /= 401
                /\ (e.self.state = "Created" =>
                        /\ IsSome(e.self.token) /\ IsSome(e.self.identity)
                        /\ OnCreatePath(e))

\* An instance that was unbound is Created again after a write had found it
\* Created and its create had succeeded.
C16_Witness ==
    \E r \in Requests :
        /\ header[r] = None
        /\ ident[r].state = "Created"
        /\ Len(writes[r]) >= 1
        /\ writes[r][1].self.state = "Created"
        /\ writes[r][1].out.reply = "Ok"

\* Entry e is the write of a request that resolved a record and whose
\* handler called neither remember nor forget.
ReadOnly(e) == e.last.op = "none" /\ e.self.id /= -1

C18_LastCallDecides ==
    \A r \in Requests : \A i \in 1..Len(writes[r]) :
        LET e == writes[r][i]
        IN  /\ e.last.op = "remember" =>
                    e.out.msg = Some([kind |-> "create", id |-> e.self.id,
                                      token |-> e.last.token,
                                      userid |-> Some(e.last.value)])
            /\ e.last.op = "forget" =>
                    IF IsSome(e.self.token)
                    THEN /\ e.out.msg = Some([kind |-> "delete", id |-> -1,
                                              token |-> Unwrap(e.self.token),
                                              userid |-> None])
                         /\ \/ Unwrap(e.self.token) \in Tokens
                            \/ /\ e.self.id /= -1
                               /\ Unwrap(e.self.token) = Unwrap(load(header[r]))
                    ELSE /\ e.out.msg = None
                         /\ e.out.ret = "Err"
                         /\ e.out.error = "TokenRequired"
                         /\ e.self.id = -1

\* On an unbound instance remember and then forget were called before the
\* first write, which sent a delete for the token that was never stored.
C18_Witness ==
    \E r \in Requests :
        /\ header[r] = None
        /\ Len(writes[r]) >= 1
        /\ writes[r][1].last.op = "forget"
        /\ IsSome(writes[r][1].self.token)
        /\ IsSome(writes[r][1].out.msg)
        /\ Unwrap(writes[r][1].out.msg).kind = "delete"
        /\ writes[r][1].out.reply = "Ok"

\* C19: a write that rejects with TokenRequired leaves state, identity and
\* token of the instance as they were, the state not being Unchanged, and
\* changes nothing in the store; every write called right after a rejected
\* one finds the same instance, rejects with the same bad-request error and
\* sends nothing.
C19_RejectionKeepsState ==
    /\ [][\A r \in Requests :
            Wrote(r) /\ writes'[r][Len(writes'[r])].out.error = "TokenRequired" =>
                /\ ident'[r] = ident[r]
                /\ ident[r].state /= "Unchanged"
                /\ rows' = rows]_vars
    /\ [](\A r \in Requests : \A i \in 2..Len(writes[r]) :
            writes[r][i - 1].out.error = "TokenRequired" /\ writes[r][i].last.op = "write" =>
                /\ writes[r][i].self = writes[r][i - 1].self
                /\ writes[r][i].out.ret = "Err"
                /\ writes[r][i].out.status = 400
                /\ writes[r][i].out.error = "TokenRequired"
                /\ writes[r][i].out.msg = None)

\* Two writes in a row were rejected and the instance is still Deleted.
C19_Witness ==
    \E r \in Requests :
        /\ Len(writes[r]) = 2
        /\ writes[r][1].out.error = "TokenRequired"
        /\ writes[r][2].last.op = "write"
        /\ writes[r][2].out.error = "TokenRequired"
        /\ ident[r].state = "Deleted"

====
